---- MODULE Spec2Model ----
(***************************************************************************)
(* qube-manager: the quorum coordination daemon (main, the event loop and  *)
(* checkAndExecuteQuorum).  Go strings that the code inspects (tag values, *)
(* versions, URLs, action keys) are sequences of one-character strings, so *)
(* that parsing and formatting are computed and not assumed.  Signer       *)
(* identities (ev.PubKey) are opaque and are TLA+ strings.                 *)
(***************************************************************************)
EXTENDS Integers, Sequences, FiniteSets, Bags, TLC

(***************************************************************************)
(* Bounds of the model.                                                    *)
(***************************************************************************)
\* created_at values of the events are drawn from 1..MaxTime
MaxTime == 2
\* number of times the process is started (1 = no restart)
MaxRuns == 2
\* the number of signals send-message publishes
MaxSent == 1

(***************************************************************************)
(* String literals of the source.                                          *)
(***************************************************************************)
Empty == <<>>
S_hyperqube == <<"h","y","p","e","r","q","u","b","e">>
S_upgrade == <<"u","p","g","r","a","d","e">>
S_reboot == <<"r","e","b","o","o","t">>
S_success == <<"s","u","c","c","e","s","s">>
S_colon == <<":">>

Digits == {"0","1","2","3","4","5","6","7","8","9"}
Letters == {"a","b","c","d","e","f","g","h","i","j","k","l","m","n","o","p","q",
            "r","s","t","u","v","w","x","y","z"}

DigitVal(c) ==
  CASE c = "0" -> 0 [] c = "1" -> 1 [] c = "2" -> 2 [] c = "3" -> 3 [] c = "4" -> 4
    [] c = "5" -> 5 [] c = "6" -> 6 [] c = "7" -> 7 [] c = "8" -> 8 [] c = "9" -> 9

(***************************************************************************)
(* getTagValue: the value of the first tag with the given name that has at *)
(* least two elements, or the empty string.                                *)
(***************************************************************************)
RECURSIVE getTagValue(_, _)
getTagValue(tags, tagName) ==
  IF tags = <<>> THEN Empty
  ELSE IF Len(Head(tags)) >= 2 /\ Head(tags)[1] = tagName THEN Head(tags)[2]
  ELSE getTagValue(Tail(tags), tagName)

(***************************************************************************)
(* semver.NewVersion, on the strings without pre-release or build          *)
(* metadata: an optional "v", then one to three dot-separated groups of    *)
(* digits; missing minor and patch are 0.  The version keeps the string it *)
(* was parsed from (Original()).                                           *)
(***************************************************************************)
RECURSIVE SplitDots(_, _, _)
SplitDots(s, cur, acc) ==
  IF s = <<>> THEN Append(acc, cur)
  ELSE IF Head(s) = "." THEN SplitDots(Tail(s), <<>>, Append(acc, cur))
  ELSE SplitDots(Tail(s), Append(cur, Head(s)), acc)

IsNumber(g) == g # <<>> /\ \A i \in 1..Len(g) : g[i] \in Digits

RECURSIVE ParseUint(_, _)
ParseUint(g, n) == IF g = <<>> THEN n ELSE ParseUint(Tail(g), 10 * n + DigitVal(Head(g)))

StripV(s) == IF s # <<>> /\ Head(s) = "v" THEN Tail(s) ELSE s

NewVersion(s) ==
  LET groups == SplitDots(StripV(s), <<>>, <<>>)
      ok == /\ Len(groups) \in 1..3
            /\ \A i \in 1..Len(groups) : IsNumber(groups[i])
      part(i) == IF i <= Len(groups) THEN ParseUint(groups[i], 0) ELSE 0
  IN IF ok
       THEN [err |-> FALSE, major |-> part(1), minor |-> part(2), patch |-> part(3),
             original |-> s]
       ELSE [err |-> TRUE, major |-> 0, minor |-> 0, patch |-> 0, original |-> s]

\* Version.Compare: major, then minor, then patch
Compare(v, o) ==
  IF v.major # o.major THEN (IF v.major > o.major THEN 1 ELSE -1)
  ELSE IF v.minor # o.minor THEN (IF v.minor > o.minor THEN 1 ELSE -1)
  ELSE IF v.patch # o.patch THEN (IF v.patch > o.patch THEN 1 ELSE -1)
  ELSE 0

\* the order of the characters "." < digits < letters, and of strings byte by byte
Ord(c) == IF c = "." THEN 0 ELSE IF c \in Digits THEN 1 + DigitVal(c) ELSE 11

RECURSIVE StrLess(_, _)
StrLess(a, b) ==
  IF b = <<>> THEN FALSE
  ELSE IF a = <<>> THEN TRUE
  ELSE IF Head(a) = Head(b) THEN StrLess(Tail(a), Tail(b))
  ELSE Ord(Head(a)) < Ord(Head(b))

\* a comparison of the version strings byte by byte, which semver does not make
GreaterThanLexical(v, o) == StrLess(o.original, v.original)

\* Version.GreaterThan
GreaterThan(v, o) == Compare(v, o) > 0

(***************************************************************************)
(* url.ParseRequestURI, as far as it can fail on the strings used here:    *)
(* the empty string is an error; getScheme reads letters (and, after the   *)
(* first character, digits) up to a ":"; what follows the scheme must      *)
(* start with "/" unless there is a scheme (an opaque URI).                *)
(***************************************************************************)
RECURSIVE getScheme(_, _)
getScheme(s, i) ==
  IF i > Len(s) THEN [err |-> FALSE, scheme |-> Empty, rest |-> s]
  ELSE IF s[i] \in Letters THEN getScheme(s, i + 1)
  ELSE IF s[i] \in Digits \cup {"+", "-", "."}
    THEN IF i = 1 THEN [err |-> FALSE, scheme |-> Empty, rest |-> s]
         ELSE getScheme(s, i + 1)
  ELSE IF s[i] = ":"
    THEN IF i = 1 THEN [err |-> TRUE, scheme |-> Empty, rest |-> s]
         ELSE [err |-> FALSE, scheme |-> SubSeq(s, 1, i - 1), rest |-> SubSeq(s, i + 1, Len(s))]
  ELSE [err |-> FALSE, scheme |-> Empty, rest |-> s]

ParseRequestURIErr(rawURL) ==
  IF rawURL = Empty THEN TRUE
  ELSE LET g == getScheme(rawURL, 1)
       IN IF g.err THEN TRUE
          ELSE IF g.rest # <<>> /\ Head(g.rest) = "/" THEN FALSE
          ELSE g.scheme = Empty

(***************************************************************************)
(* The events the relays can deliver.  A payload is the tag list of a      *)
(* kind=33321 event; the library has checked the signature, so PubKey is   *)
(* a 64-character key and PubKey[:8] cannot fail.                          *)
(***************************************************************************)
Signers == {"s1", "s2"}

V_1_9_0 == <<"v","1",".","9",".","0">>
V_1_10_0 == <<"v","1",".","1","0",".","0">>
V_1_10_0_bare == <<"1",".","1","0",".","0">>
V_2_0_0 == <<"v","2",".","0",".","0">>
V_bad == <<"v","2",".","x">>
H_long == <<"a","b","c","d","e","f","0","1","2">>
H_short == <<"a","b","c">>
H_other == <<"9","8","7","6","5","4","3","2","1">>
N_hqz == <<"h","q","z">>
N_testnet == <<"t","e","s","t","n","e","t">>
G_ok == <<"h","t","t","p","s",":","/","/","g">>
G_bad == <<"g">>
A_restart == <<"r","e","s","t","a","r","t">>
D_other == <<"o","t","h","e","r">>

\* a tag list; a tag whose value is empty is left out of the event
MkTags(d, version, hash, network, action, genesis) ==
  LET all == << <<"d", d>>, <<"version", version>>, <<"hash", hash>>,
                <<"network", network>>, <<"action", action>>,
                <<"genesis_url", genesis>> >>
  IN SelectSeq(all, LAMBDA t : t[2] # Empty)

\* the well-formed signals, and the signals that are turned down with the lock held
Payloads ==
  { MkTags(S_hyperqube, V_1_9_0, H_long, N_hqz, S_upgrade, Empty),
    MkTags(S_hyperqube, V_1_10_0, H_long, N_hqz, S_reboot, G_ok),
    MkTags(S_hyperqube, V_1_9_0, H_short, N_hqz, S_upgrade, Empty),
    MkTags(S_hyperqube, V_2_0_0, H_long, N_hqz, S_reboot, Empty),
    MkTags(S_hyperqube, V_2_0_0, H_long, N_hqz, S_reboot, G_bad),
    MkTags(S_hyperqube, V_2_0_0, H_long, N_hqz, A_restart, Empty) }

\* the signals that are turned down before the lock is taken
MalformedPayloads ==
  { MkTags(S_hyperqube, V_2_0_0, H_long, N_testnet, S_upgrade, Empty),
    MkTags(S_hyperqube, V_bad, H_long, N_hqz, S_upgrade, Empty),
    MkTags(S_hyperqube, V_2_0_0, Empty, N_hqz, S_upgrade, Empty),
    MkTags(D_other, V_2_0_0, H_long, N_hqz, S_upgrade, Empty) }

\* well-formed signals of which two keys carry the same version and one key a
\* lower version
TiePayloads ==
  { MkTags(S_hyperqube, V_1_10_0, H_long, N_hqz, S_upgrade, Empty),
    MkTags(S_hyperqube, V_1_10_0, H_long, N_hqz, S_reboot, G_ok),
    MkTags(S_hyperqube, V_1_9_0, H_long, N_hqz, S_upgrade, Empty) }

\* well-formed signals that spell one semantic version in two ways
SpellingPayloads ==
  { MkTags(S_hyperqube, V_1_10_0, H_long, N_hqz, S_upgrade, Empty),
    MkTags(S_hyperqube, V_1_10_0_bare, H_long, N_hqz, S_upgrade, Empty) }

\* well-formed signals for one key that carry two different hashes
HashPayloads ==
  { MkTags(S_hyperqube, V_1_9_0, H_long, N_hqz, S_upgrade, Empty),
    MkTags(S_hyperqube, V_1_9_0, H_other, N_hqz, S_upgrade, Empty) }

Events == [PubKey : Signers, CreatedAt : 1..MaxTime, Tags : Payloads]

HashEvents == [PubKey : Signers, CreatedAt : 1..MaxTime, Tags : HashPayloads]

SpellingEvents == [PubKey : Signers, CreatedAt : 1..MaxTime, Tags : SpellingPayloads]

TieEvents == [PubKey : Signers, CreatedAt : 1..MaxTime, Tags : TiePayloads]

\* they are turned down before created_at is read: the newest time stands for all
MalformedEvents == [PubKey : Signers, CreatedAt : {MaxTime}, Tags : MalformedPayloads]

(***************************************************************************)
(* send-message: the flags of one invocation, the checks it makes on them  *)
(* before it builds the event, and the tags of the event it publishes.     *)
(***************************************************************************)
\* the values given to -type, -version, -hash, -network, -genesis and -dry-run
SendFlags ==
  [msgType : {S_upgrade, S_reboot, A_restart},
   version : {V_1_9_0, V_bad, Empty},
   hash : {H_long, H_short, Empty},
   network : {N_hqz, N_testnet, Empty},
   genesis : {Empty, G_ok, G_bad},
   dryRun : BOOLEAN]

\* the log.Fatal that ends the invocation: "" when the flags pass every check
sendMessageFatal(f) ==
  IF f.msgType # S_upgrade /\ f.msgType # S_reboot THEN "invalid_type"
  ELSE IF f.version = Empty THEN "version_required"
  ELSE IF NewVersion(f.version).err THEN "invalid_version"
  ELSE IF f.hash = Empty THEN "hash_required"
  ELSE IF f.network = Empty THEN "network_required"
  ELSE IF f.msgType = S_reboot /\ f.genesis = Empty THEN "genesis_required"
  ELSE ""

\* the tags of the event: genesis_url is appended for a reboot only
sendMessageTags(f) ==
  << <<"d", S_hyperqube>>, <<"version", f.version>>, <<"hash", f.hash>>,
     <<"network", f.network>>, <<"action", f.msgType>> >>
  \o (IF f.msgType = S_reboot THEN << <<"genesis_url", f.genesis>> >> ELSE <<>>)

\* the tag lists send-message can publish
SendPayloads == {sendMessageTags(f) : f \in {g \in SendFlags : sendMessageFatal(g) = ""}}

SendEvents == [PubKey : Signers, CreatedAt : 1..MaxTime, Tags : SendPayloads]

\* what the loop body reads from the tags of an event, and what the parsers return
TagsRead(tags) ==
  [dTag |-> getTagValue(tags, "d"),
   version |-> getTagValue(tags, "version"),
   hash |-> getTagValue(tags, "hash"),
   network |-> getTagValue(tags, "network"),
   action |-> getTagValue(tags, "action"),
   genesisURL |-> getTagValue(tags, "genesis_url"),
   v |-> NewVersion(getTagValue(tags, "version")),
   genesisErr |-> ParseRequestURIErr(getTagValue(tags, "genesis_url"))]

Read ==
  [tags \in Payloads \cup MalformedPayloads \cup TiePayloads \cup SpellingPayloads
             \cup HashPayloads \cup SendPayloads |->
     TagsRead(tags)]

(***************************************************************************)
(* State.                                                                  *)
(***************************************************************************)
VARIABLES
  config,           \* Config: Quorum, Network, NodeID (loadConfig)
  dryRun,           \* the -dry-run flag
  actions,          \* action key -> CandidateAction
  votes,            \* action key -> set of pubkeys
  latestSignal,     \* pubkey -> created_at of the latest signal taken
  signalActionMap,  \* pubkey -> action key of the latest signal taken
  history,          \* History in memory: the set of keys acted on
  historyFile,      \* history.yaml on disk
  published,        \* bag of the kind=3333 events handed to the relay publishers
  status,           \* "running", "crashed" (panic) or "stopped" (shutdown)
  run,              \* number of the current run of the process
  last,             \* the branch the last step took, and the action it selected
  actionsMux,       \* the holder of actionsMux: "unlocked", "main" or "checker"
  loop,             \* where the event loop of main stands, and the event it handles
  checker,          \* where the quorum checker goroutine stands, and its latest
  publishers,       \* the keys whose publisher goroutines have not returned yet
  stream            \* the signals the relays hold, and those the loop has been given

vars == <<config, dryRun, actions, votes, latestSignal, signalActionMap,
          history, historyFile, published, status, run, last,
          actionsMux, loop, checker, publishers, stream>>

\* the lock, the positions and the publishers, which a handler taken as one step
\* passes through and leaves as it found them, and the record of the stream
steps == <<actionsMux, loop, checker, publishers, stream>>

\* the empty Go map
EmptyMap == <<>>

\* m[k] = v
Put(m, k, v) == (k :> v) @@ m

\* the nil *CandidateAction
NilAction == [Type |-> Empty, Version |-> NewVersion(Empty), Key |-> Empty, Genesis |-> Empty,
              Hash |-> Empty, Network |-> Empty, OriginalPubkey |-> ""]

\* the value of last after a step
Took(step, outcome, selected) == [step |-> step, outcome |-> outcome, selected |-> selected]

\* the event loop between two events, and the quorum checker between two ticks
NoEvent == [PubKey |-> "", CreatedAt |-> 0, Tags |-> <<>>]

LoopIdle == [pc |-> "receive", ev |-> NoEvent]

CheckerIdle == [pc |-> "wait", latest |-> NilAction]

\* no record is kept of the signals of the relays
NoStream == [sent |-> {}, seen |-> {}]

(***************************************************************************)
(* History (history.go): the set of the keys acted on, Has, Add, and Save  *)
(* and loadHistory to and from history.yaml.                               *)
(***************************************************************************)
HistoryHas(h, key) == key \in h
HistoryAdd(h, key) == h \cup {key}
HistorySave(h, file, ok) == IF ok THEN h ELSE file
loadHistory(file) == file

(***************************************************************************)
(* The event loop of main: one event read from the subscription.           *)
(***************************************************************************)
\* the checks before the lock is taken: "" when the event passes
PreLockReject(ev, cfg) ==
  LET t == Read[ev.Tags]
  IN IF t.dTag # S_hyperqube THEN "wrong_d"
     ELSE IF t.version = Empty \/ t.hash = Empty \/ t.network = Empty \/ t.action = Empty
       THEN "missing_tag"
     ELSE IF t.network # cfg.Network THEN "wrong_network"
     ELSE IF t.v.err THEN "invalid_version"
     ELSE ""

\* a loop in which the signal that arrives last counts, whatever its time
ArrivedLater(created, prevTimestamp) == TRUE

\* a test that would take a signal of equal time as newer
IsNewerOrEqual(created, prevTimestamp) == created >= prevTimestamp

\* ev.CreatedAt > prevTimestamp
IsNewer(created, prevTimestamp) == created > prevTimestamp

\* a supersession that would leave the old vote in place
KeepOldVote(vts, sam, pk) == vts

\* the vote of the pubkey is deleted from the vote set of its old action key
ClearOldVote(vts, sam, pk) ==
  IF pk \in DOMAIN sam /\ sam[pk] \in DOMAIN vts
    THEN [vts EXCEPT ![sam[pk]] = @ \ {pk}]
    ELSE vts

\* fmt.Sprintf("upgrade:%s", v.Original())
UpgradeKey(v) == S_upgrade \o S_colon \o v.original

\* fmt.Sprintf("reboot:%s:%s", v.Original(), genesisURL)
RebootKey(v, genesisURL) == S_reboot \o S_colon \o v.original \o S_colon \o genesisURL

\* hash[:8] panics on a hash shorter than eight bytes
SlicePanics(str, n) == Len(str) < n

\* a recording that would add the vote only when it creates the vote set
RecordVoteOnlyIfNew(l, cand, pk, created) ==
  LET key == cand.Key
  IN [actions |-> IF key \in DOMAIN l.actions THEN l.actions ELSE Put(l.actions, key, cand),
      votes |-> IF key \in DOMAIN l.votes THEN l.votes ELSE Put(l.votes, key, {pk}),
      latestSignal |-> Put(l.latestSignal, pk, created),
      signalActionMap |-> Put(l.signalActionMap, pk, key)]

\* a recording that would keep the first key tracked for the pubkey
RecordVoteKeepsFirstKey(l, cand, pk, created) ==
  LET key == cand.Key
  IN [actions |-> IF key \in DOMAIN l.actions THEN l.actions ELSE Put(l.actions, key, cand),
      votes |-> IF key \in DOMAIN l.votes
                  THEN [l.votes EXCEPT ![key] = @ \cup {pk}]
                  ELSE Put(l.votes, key, {pk}),
      latestSignal |-> Put(l.latestSignal, pk, created),
      signalActionMap |-> IF pk \in DOMAIN l.signalActionMap THEN l.signalActionMap
                          ELSE Put(l.signalActionMap, pk, key)]

\* a recording that would store the candidate of every signal over the first one
RecordVoteOverwrites(l, cand, pk, created) ==
  LET key == cand.Key
  IN [actions |-> Put(l.actions, key, cand),
      votes |-> IF key \in DOMAIN l.votes
                  THEN [l.votes EXCEPT ![key] = @ \cup {pk}]
                  ELSE Put(l.votes, key, {pk}),
      latestSignal |-> Put(l.latestSignal, pk, created),
      signalActionMap |-> Put(l.signalActionMap, pk, key)]

\* a loop body that would not count a signal whose hash is not the candidate's
RecordVoteForSameHash(l, cand, pk, created) ==
  LET key == cand.Key
      other == key \in DOMAIN l.actions /\ l.actions[key].Hash # cand.Hash
  IN [actions |-> IF key \in DOMAIN l.actions THEN l.actions ELSE Put(l.actions, key, cand),
      votes |-> IF other THEN l.votes
                ELSE IF key \in DOMAIN l.votes
                  THEN [l.votes EXCEPT ![key] = @ \cup {pk}]
                  ELSE Put(l.votes, key, {pk}),
      latestSignal |-> Put(l.latestSignal, pk, created),
      signalActionMap |-> Put(l.signalActionMap, pk, key)]

\* the candidate is created if the key is new, the vote added, the tracking updated
RecordVote(l, cand, pk, created) ==
  LET key == cand.Key
  IN [actions |-> IF key \in DOMAIN l.actions THEN l.actions ELSE Put(l.actions, key, cand),
      votes |-> IF key \in DOMAIN l.votes
                  THEN [l.votes EXCEPT ![key] = @ \cup {pk}]
                  ELSE Put(l.votes, key, {pk}),
      latestSignal |-> Put(l.latestSignal, pk, created),
      signalActionMap |-> Put(l.signalActionMap, pk, key)]

\* a loop body that would count a signal of any other action type as an upgrade
LockedAcceptsUnknown(l, ev) ==
  LET pk == ev.PubKey
      v == Read[ev.Tags].v
      hash == Read[ev.Tags].hash
      network == Read[ev.Tags].network
      action == Read[ev.Tags].action
      genesisURL == Read[ev.Tags].genesisURL
      exists == pk \in DOMAIN l.latestSignal
      stale == exists /\ ~IsNewer(ev.CreatedAt, l.latestSignal[pk])
      l1 == IF exists /\ ~stale
              THEN [l EXCEPT !.votes = ClearOldVote(l.votes, l.signalActionMap, pk)]
              ELSE l
  IN IF stale THEN [ledger |-> l, outcome |-> "stale", panic |-> FALSE]
     ELSE IF action = S_reboot
       THEN IF genesisURL = Empty
              THEN [ledger |-> l1, outcome |-> "missing_genesis", panic |-> FALSE]
            ELSE IF Read[ev.Tags].genesisErr
              THEN [ledger |-> l1, outcome |-> "invalid_genesis", panic |-> FALSE]
            ELSE [ledger |-> RecordVote(l1, [Type |-> S_reboot, Version |-> v,
                                             Key |-> RebootKey(v, genesisURL),
                                             Genesis |-> genesisURL,
                                             Hash |-> hash, Network |-> network,
                                             OriginalPubkey |-> pk], pk, ev.CreatedAt),
                  outcome |-> "reboot", panic |-> SlicePanics(hash, 8)]
     ELSE [ledger |-> RecordVote(l1, [Type |-> S_upgrade, Version |-> v,
                                      Key |-> UpgradeKey(v), Genesis |-> Empty,
                                      Hash |-> hash, Network |-> network,
                                      OriginalPubkey |-> pk], pk, ev.CreatedAt),
           outcome |-> IF action = S_upgrade THEN "upgrade" ELSE "unknown_action",
           panic |-> SlicePanics(hash, 8)]

\* the part of the loop body that runs with actionsMux held
Locked(l, ev) ==
  LET pk == ev.PubKey
      v == Read[ev.Tags].v
      hash == Read[ev.Tags].hash
      network == Read[ev.Tags].network
      action == Read[ev.Tags].action
      genesisURL == Read[ev.Tags].genesisURL
      exists == pk \in DOMAIN l.latestSignal
      stale == exists /\ ~IsNewer(ev.CreatedAt, l.latestSignal[pk])
      l1 == IF exists /\ ~stale
              THEN [l EXCEPT !.votes = ClearOldVote(l.votes, l.signalActionMap, pk)]
              ELSE l
  IN IF stale THEN [ledger |-> l, outcome |-> "stale", panic |-> FALSE]
     ELSE IF action = S_upgrade
       THEN [ledger |-> RecordVote(l1, [Type |-> S_upgrade, Version |-> v,
                                        Key |-> UpgradeKey(v), Genesis |-> Empty,
                                        Hash |-> hash, Network |-> network,
                                        OriginalPubkey |-> pk], pk, ev.CreatedAt),
             outcome |-> "upgrade", panic |-> SlicePanics(hash, 8)]
     ELSE IF action = S_reboot
       THEN IF genesisURL = Empty
              THEN [ledger |-> l1, outcome |-> "missing_genesis", panic |-> FALSE]
            ELSE IF Read[ev.Tags].genesisErr
              THEN [ledger |-> l1, outcome |-> "invalid_genesis", panic |-> FALSE]
            ELSE [ledger |-> RecordVote(l1, [Type |-> S_reboot, Version |-> v,
                                             Key |-> RebootKey(v, genesisURL),
                                             Genesis |-> genesisURL,
                                             Hash |-> hash, Network |-> network,
                                             OriginalPubkey |-> pk], pk, ev.CreatedAt),
                  outcome |-> "reboot", panic |-> SlicePanics(hash, 8)]
     ELSE [ledger |-> l1, outcome |-> "unknown_action", panic |-> FALSE]

\* the whole loop body for one event
Process(l, ev, cfg) ==
  IF PreLockReject(ev, cfg) # ""
    THEN [ledger |-> l, outcome |-> PreLockReject(ev, cfg), panic |-> FALSE]
    ELSE Locked(l, ev)

\* the four maps main shares with the quorum checker
Ledger == [actions |-> actions, votes |-> votes, latestSignal |-> latestSignal,
           signalActionMap |-> signalActionMap]

ProcessEvent(ev) ==
  /\ status = "running"
  /\ LET r == Process(Ledger, ev, config)
     IN /\ actions' = r.ledger.actions
        /\ votes' = r.ledger.votes
        /\ latestSignal' = r.ledger.latestSignal
        /\ signalActionMap' = r.ledger.signalActionMap
        /\ status' = IF r.panic THEN "crashed" ELSE status
        /\ last' = Took("event", r.outcome, Empty)
  /\ UNCHANGED steps
  /\ UNCHANGED <<config, dryRun, history, historyFile, published, run>>

(***************************************************************************)
(* checkAndExecuteQuorum: one tick of the quorum checker, with actionsMux  *)
(* held from the first line to the return.                                 *)
(***************************************************************************)
\* the orders in which "for _, a := range actions" may visit the keys
RECURSIVE Orders(_)
Orders(S) ==
  IF S = {} THEN {<<>>}
  ELSE UNION {{<<x>> \o o : o \in Orders(S \ {x})} : x \in S}

\* voteCount: len(votes[a.Key]), 0 when the key has no vote set
VoteCount(vts, key) == IF key \in DOMAIN vts THEN Cardinality(vts[key]) ELSE 0

\* a threshold test that would let one vote fewer pass
BelowQuorumOffByOne(voteCount, quorum) == voteCount + 1 < quorum

\* voteCount < config.Quorum
BelowQuorum(voteCount, quorum) == voteCount < quorum

\* a selection loop that would not consult the history
NeverActedOn(h, key) == FALSE

\* history.Has(a.Key): skip already acted on
AlreadyActedOn(h, key) == HistoryHas(h, key)

\* a loop that would let every candidate at quorum replace the one found before
ReplacesAlways(a, latest) == TRUE

\* a loop that would compare the versions the other way round
ReplacesWhenLower(a, latest) == latest = NilAction \/ GreaterThan(latest.Version, a.Version)

\* latest == nil || a.Version.GreaterThan(latest.Version)
Replaces(a, latest) == latest = NilAction \/ GreaterThan(a.Version, latest.Version)

\* the selection loop over the candidates in the given order
RECURSIVE SelectLatest(_, _, _, _, _, _)
SelectLatest(order, latest, acts, vts, h, quorum) ==
  IF order = <<>> THEN latest
  ELSE LET a == acts[Head(order)]
           next == IF AlreadyActedOn(h, a.Key) THEN latest
                   ELSE IF BelowQuorum(VoteCount(vts, a.Key), quorum) THEN latest
                   ELSE IF Replaces(a, latest) THEN a
                   ELSE latest
       IN SelectLatest(Tail(order), next, acts, vts, h, quorum)

\* a status event that would be addressed to the node itself
DoneEventToNode(latest, cfg) ==
  [a |-> <<"33321", cfg.NodeID, "hyperqube">>,
   p |-> cfg.NodeID,
   version |-> latest.Version.original,
   network |-> cfg.Network,
   action |-> latest.Type,
   status |-> S_success,
   node_id |-> cfg.NodeID]

\* the kind=3333 status event built for the selected action
DoneEvent(latest, cfg) ==
  [a |-> <<"33321", latest.OriginalPubkey, "hyperqube">>,
   p |-> latest.OriginalPubkey,
   version |-> latest.Version.original,
   network |-> cfg.Network,
   action |-> latest.Type,
   status |-> S_success,
   node_id |-> cfg.NodeID]

\* an execution that would not record the key
SkipHistoryAdd(h, key) == h

\* an execution that would record every candidate at quorum
RecordEveryCandidateAtQuorum(h, key) ==
  h \cup {k \in DOMAIN actions : ~BelowQuorum(VoteCount(votes, k), config.Quorum)}

\* history.Add(latest.Key) after the publishers are started
RecordInHistory(h, key) == HistoryAdd(h, key)

\* the actions the selection loop can end with, over the orders of the range loop
Selectable ==
  {SelectLatest(order, NilAction, actions, votes, history, config.Quorum) :
     order \in Orders(DOMAIN actions)}

\* a tick that would publish and record the action in dry-run mode too
ExecuteIgnoresDryRun(latest) ==
  IF latest = NilAction
    THEN /\ last' = Took("tick", "none", Empty)
         /\ UNCHANGED <<history, historyFile, published>>
  ELSE \/ /\ last' = Took("tick", "sign_error", latest.Key)
          /\ UNCHANGED <<history, historyFile, published>>
       \/ \E saveOk \in BOOLEAN :
            /\ published' = published (+) SetToBag({[event |-> DoneEvent(latest, config),
                                                     key |-> latest.Key, run |-> run]})
            /\ history' = RecordInHistory(history, latest.Key)
            /\ historyFile' = HistorySave(history', historyFile, saveOk)
            /\ last' = Took("tick", IF dryRun THEN "dry_run" ELSE "executed", latest.Key)

\* the rest of the tick once the loop has ended with latest
Execute(latest) ==
  IF latest = NilAction
    THEN /\ last' = Took("tick", "none", Empty)
         /\ UNCHANGED <<history, historyFile, published>>
  ELSE IF dryRun
    THEN /\ last' = Took("tick", "dry_run", latest.Key)
         /\ UNCHANGED <<history, historyFile, published>>
  ELSE \/ \* doneEvent.Sign returns an error
          /\ last' = Took("tick", "sign_error", latest.Key)
          /\ UNCHANGED <<history, historyFile, published>>
       \/ \* the publishers are started, then history.Add and history.Save
          \E saveOk \in BOOLEAN :
            /\ published' = published (+) SetToBag({[event |-> DoneEvent(latest, config),
                                                     key |-> latest.Key, run |-> run]})
            /\ history' = RecordInHistory(history, latest.Key)
            /\ historyFile' = HistorySave(history', historyFile, saveOk)
            /\ last' = Took("tick", "executed", latest.Key)

\* a tick that would empty the vote set of the action it has executed
TickClearsVotes ==
  /\ status = "running"
  /\ \E latest \in Selectable :
       /\ Execute(latest)
       /\ votes' = IF last'.outcome = "executed"
                     THEN [votes EXCEPT ![latest.Key] = {}] ELSE votes
  /\ UNCHANGED steps
  /\ UNCHANGED <<config, dryRun, actions, latestSignal, signalActionMap, status, run>>

Tick ==
  /\ status = "running"
  /\ \E latest \in Selectable : Execute(latest)
  /\ UNCHANGED steps
  /\ UNCHANGED <<config, dryRun, actions, votes, latestSignal, signalActionMap, status, run>>

(***************************************************************************)
(* The life of the process: SIGINT/SIGTERM cancels the context and main    *)
(* returns; a later start builds empty maps and loads history.yaml.        *)
(***************************************************************************)
Shutdown ==
  /\ status = "running"
  /\ status' = "stopped"
  /\ last' = Took("shutdown", "none", Empty)
  /\ UNCHANGED steps
  /\ UNCHANGED <<config, dryRun, actions, votes, latestSignal, signalActionMap,
                 history, historyFile, published, run>>

Start ==
  /\ status \in {"crashed", "stopped"}
  /\ run < MaxRuns
  /\ run' = run + 1
  /\ status' = "running"
  /\ actions' = EmptyMap
  /\ votes' = EmptyMap
  /\ latestSignal' = EmptyMap
  /\ signalActionMap' = EmptyMap
  /\ history' = loadHistory(historyFile)
  /\ last' = Took("start", "none", Empty)
  /\ UNCHANGED steps
  /\ UNCHANGED <<config, dryRun, historyFile, published>>

QuorumValues == {1, 2}

Init ==
  /\ config \in [Quorum : QuorumValues, Network : {N_hqz}, NodeID : {"node-1"}]
  /\ dryRun \in BOOLEAN
  /\ actions = EmptyMap
  /\ votes = EmptyMap
  /\ latestSignal = EmptyMap
  /\ signalActionMap = EmptyMap
  /\ historyFile = {}
  /\ history = loadHistory(historyFile)
  /\ published = EmptyBag
  /\ status = "running"
  /\ run = 1
  /\ last = Took("start", "none", Empty)
  /\ actionsMux = "unlocked"
  /\ loop = LoopIdle
  /\ checker = CheckerIdle
  /\ publishers = {}
  /\ stream = NoStream

Next ==
  \/ \E ev \in Events : ProcessEvent(ev)
  \/ Tick
  \/ Shutdown

Spec == Init /\ [][Next]_vars

\* the daemon fed with malformed signals too
NextAll ==
  \/ Next
  \/ \E ev \in MalformedEvents : ProcessEvent(ev)

SpecAll == Init /\ [][NextAll]_vars

\* a tick in which doneEvent.Sign and history.Save return no error
TickSucceeds == Tick /\ last'.outcome # "sign_error" /\ historyFile' = history'

\* the daemon started without -dry-run and with quorum 1, so that the keys of
\* two signers are eligible together
InitTie == Init /\ ~dryRun /\ config.Quorum = 1

\* the daemon fed with signals of equal version and sent no SIGINT or SIGTERM,
\* signing and saving without error, the ticker firing every interval
NextTie ==
  \/ \E ev \in TieEvents : ProcessEvent(ev)
  \/ TickSucceeds

SpecTie == InitTie /\ [][NextTie]_vars /\ WF_vars(TickSucceeds)

\* the daemon fed with signals of equal version, with every outcome of a tick
NextTieAll ==
  \/ \E ev \in TieEvents : ProcessEvent(ev)
  \/ Tick

SpecTieAll == InitTie /\ [][NextTieAll]_vars

\* the daemon fed with signals that write the version with and without the "v"
NextSpelling ==
  \/ \E ev \in SpellingEvents : ProcessEvent(ev)
  \/ Tick
  \/ Shutdown

SpecSpelling == Init /\ [][NextSpelling]_vars

\* the quorum entry of config.yaml: <<>> when the file has none, else its number
QuorumFields == {<<>>, <<-1>>, <<0>>, <<1>>}

\* yaml.Unmarshal leaves Quorum at 0 when the entry is missing, and loadConfig
\* returns the number it read without comparing it with anything
loadConfigQuorum(field) == IF field = <<>> THEN 0 ELSE field[1]

\* the daemon started on any config.yaml that loadConfig returns a Config for
InitLoaded ==
  /\ config \in [Quorum : {loadConfigQuorum(f) : f \in QuorumFields},
                 Network : {N_hqz}, NodeID : {"node-1"}]
  /\ dryRun \in BOOLEAN
  /\ actions = EmptyMap
  /\ votes = EmptyMap
  /\ latestSignal = EmptyMap
  /\ signalActionMap = EmptyMap
  /\ historyFile = {}
  /\ history = loadHistory(historyFile)
  /\ published = EmptyBag
  /\ status = "running"
  /\ run = 1
  /\ last = Took("start", "none", Empty)
  /\ actionsMux = "unlocked"
  /\ loop = LoopIdle
  /\ checker = CheckerIdle
  /\ publishers = {}
  /\ stream = NoStream

SpecLoaded == InitLoaded /\ [][Next]_vars

(***************************************************************************)
(* Shutdown in steps: the signal handler cancels the context; the evaluator*)
(* goroutine, whose select may still take a tick that is due, returns on   *)
(* ctx.Done(); the loop of main ends when the event stream is closed or at *)
(* its ctx.Done() check, main returns and the process ends.                *)
(***************************************************************************)
Cancel ==
  /\ status = "running"
  /\ status' = "cancelled"
  /\ last' = Took("cancel", "none", Empty)
  /\ UNCHANGED steps
  /\ UNCHANGED <<config, dryRun, actions, votes, latestSignal, signalActionMap,
                 history, historyFile, published, run>>

TickAfterCancel ==
  /\ status = "cancelled"
  /\ \E latest \in Selectable : Execute(latest)
  /\ UNCHANGED steps
  /\ UNCHANGED <<config, dryRun, actions, votes, latestSignal, signalActionMap, status, run>>

EvaluatorExit ==
  /\ status = "cancelled"
  /\ status' = "evaluator_exited"
  /\ last' = Took("evaluator_exit", "none", Empty)
  /\ UNCHANGED steps
  /\ UNCHANGED <<config, dryRun, actions, votes, latestSignal, signalActionMap,
                 history, historyFile, published, run>>

\* a loop that would wait for the next event for ever
LoopBlocks == FALSE /\ UNCHANGED vars

LoopExit ==
  /\ status \in {"cancelled", "evaluator_exited"}
  /\ status' = "stopped"
  /\ last' = Took("exit", "none", Empty)
  /\ UNCHANGED steps
  /\ UNCHANGED <<config, dryRun, actions, votes, latestSignal, signalActionMap,
                 history, historyFile, published, run>>

NextShutdown ==
  \/ \E ev \in Events : ProcessEvent(ev)
  \/ Tick
  \/ Cancel
  \/ TickAfterCancel
  \/ EvaluatorExit
  \/ LoopExit

SpecShutdown ==
  Init /\ [][NextShutdown]_vars /\ WF_vars(EvaluatorExit) /\ WF_vars(LoopExit)

\* the process dies in a tick after the publishers of the status event are
\* started and before history.Save has written history.yaml
CrashAfterPublish ==
  /\ status = "running"
  /\ ~dryRun
  /\ \E latest \in Selectable \ {NilAction} :
       /\ published' = published (+) SetToBag({[event |-> DoneEvent(latest, config),
                                                key |-> latest.Key, run |-> run]})
       /\ history' \in {history, RecordInHistory(history, latest.Key)}
       /\ last' = Took("tick", "crashed", latest.Key)
  /\ status' = "crashed"
  /\ UNCHANGED steps
  /\ UNCHANGED <<config, dryRun, actions, votes, latestSignal, signalActionMap,
                 historyFile, run>>

\* the daemon stopped or killed, and started again
NextRestart ==
  \/ Next
  \/ CrashAfterPublish
  \/ Start

SpecRestart == Init /\ [][NextRestart]_vars

(***************************************************************************)
(* The two goroutines in steps.  The event loop of main takes an event,    *)
(* calls actionsMux.Lock(), clears the superseded vote, runs the switch on *)
(* the action and unlocks; the quorum checker, when the ticker fires,      *)
(* calls checkAndExecuteQuorum, which locks, selects, signs, starts the    *)
(* publishers, adds the key to the history, saves it, and unlocks on       *)
(* return (defer).  A Lock() that has to wait is a step that is not        *)
(* enabled.  The process ends when main returns.                           *)
(***************************************************************************)
\* the well-formed signals of Payloads: two keys, one signal with a hash shorter than 8
StepPayloads ==
  { MkTags(S_hyperqube, V_1_9_0, H_long, N_hqz, S_upgrade, Empty),
    MkTags(S_hyperqube, V_1_10_0, H_long, N_hqz, S_reboot, G_ok),
    MkTags(S_hyperqube, V_1_9_0, H_short, N_hqz, S_upgrade, Empty) }

StepEvents == [PubKey : Signers, CreatedAt : 1..MaxTime, Tags : StepPayloads]

\* the goroutines run until main returns or a panic ends the process
Alive == status \in {"running", "cancelled"}

\* a Lock() that would return while another goroutine holds the mutex
LockWithoutWaiting(mux) == TRUE

\* actionsMux.Lock() returns when no goroutine holds the mutex
CanLock(mux) == mux = "unlocked"

\* the votes after the supersession block of the loop body
Superseded(l, ev) ==
  IF ev.PubKey \in DOMAIN l.latestSignal /\ IsNewer(ev.CreatedAt, l.latestSignal[ev.PubKey])
    THEN ClearOldVote(l.votes, l.signalActionMap, ev.PubKey)
    ELSE l.votes

\* the loop takes the next event and checks its tags
StepReceive(ev) ==
  /\ status = "running"
  /\ loop.pc = "receive"
  /\ IF PreLockReject(ev, config) # ""
       THEN /\ last' = Took("event", PreLockReject(ev, config), Empty)
            /\ UNCHANGED loop
       ELSE /\ loop' = [pc |-> "lock", ev |-> ev]
            /\ UNCHANGED last
  /\ UNCHANGED <<config, dryRun, actions, votes, latestSignal, signalActionMap,
                 history, historyFile, published, status, run, actionsMux, checker, publishers, stream>>

\* actionsMux.Lock() in the loop body
StepLoopLock ==
  /\ Alive
  /\ loop.pc = "lock"
  /\ CanLock(actionsMux)
  /\ actionsMux' = "main"
  /\ loop' = [loop EXCEPT !.pc = "locked"]
  /\ UNCHANGED <<config, dryRun, actions, votes, latestSignal, signalActionMap,
                 history, historyFile, published, status, run, last, checker, publishers, stream>>

\* the single-active-message block: a stale signal unlocks and continues, a
\* newer one has the old vote of its signer deleted
StepSupersede ==
  /\ Alive
  /\ loop.pc = "locked"
  /\ IF Locked(Ledger, loop.ev).outcome = "stale"
       THEN /\ actionsMux' = "unlocked"
            /\ loop' = LoopIdle
            /\ last' = Took("event", "stale", Empty)
            /\ UNCHANGED votes
       ELSE /\ votes' = Superseded(Ledger, loop.ev)
            /\ loop' = [loop EXCEPT !.pc = "switch"]
            /\ UNCHANGED <<actionsMux, last>>
  /\ UNCHANGED <<config, dryRun, actions, latestSignal, signalActionMap,
                 history, historyFile, published, status, run, checker, publishers, stream>>

\* the switch on the action, the log line that slices the hash, and Unlock()
StepSwitch ==
  /\ Alive
  /\ loop.pc = "switch"
  /\ LET r == Locked(Ledger, loop.ev)
     IN /\ actions' = r.ledger.actions
        /\ votes' = r.ledger.votes
        /\ latestSignal' = r.ledger.latestSignal
        /\ signalActionMap' = r.ledger.signalActionMap
        /\ status' = IF r.panic THEN "crashed" ELSE status
        /\ actionsMux' = IF r.panic THEN actionsMux ELSE "unlocked"
        /\ loop' = IF r.panic THEN loop ELSE LoopIdle
        /\ last' = Took("event", r.outcome, Empty)
  /\ UNCHANGED <<config, dryRun, history, historyFile, published, run, checker, publishers, stream>>

\* the ticker fires and the goroutine calls checkAndExecuteQuorum
StepFire ==
  /\ Alive
  /\ checker.pc = "wait"
  /\ checker' = [checker EXCEPT !.pc = "lock"]
  /\ UNCHANGED <<config, dryRun, actions, votes, latestSignal, signalActionMap,
                 history, historyFile, published, status, run, last, actionsMux, loop, publishers, stream>>

\* actionsMux.Lock() and the deferred Unlock() of checkAndExecuteQuorum
StepCheckerLock ==
  /\ Alive
  /\ checker.pc = "lock"
  /\ CanLock(actionsMux)
  /\ actionsMux' = "checker"
  /\ checker' = [checker EXCEPT !.pc = "select"]
  /\ UNCHANGED <<config, dryRun, actions, votes, latestSignal, signalActionMap,
                 history, historyFile, published, status, run, last, loop, publishers, stream>>

\* the selection loop; with no action at quorum, or with -dry-run, the function
\* returns and the deferred Unlock() runs
StepSelect ==
  /\ Alive
  /\ checker.pc = "select"
  /\ \E latest \in Selectable :
       IF latest = NilAction \/ dryRun
         THEN /\ actionsMux' = "unlocked"
              /\ checker' = CheckerIdle
              /\ last' = Took("tick", IF latest = NilAction THEN "none" ELSE "dry_run",
                              latest.Key)
         ELSE /\ checker' = [pc |-> "execute", latest |-> latest]
              /\ UNCHANGED <<actionsMux, last>>
  /\ UNCHANGED <<config, dryRun, actions, votes, latestSignal, signalActionMap,
                 history, historyFile, published, status, run, loop, publishers, stream>>

\* the status event is built and signed; on an error the function returns,
\* else the publishers are started and history.Add is called
StepExecute ==
  /\ Alive
  /\ checker.pc = "execute"
  /\ \/ /\ actionsMux' = "unlocked"
        /\ checker' = CheckerIdle
        /\ last' = Took("tick", "sign_error", checker.latest.Key)
        /\ UNCHANGED <<history, published, publishers>>
     \/ /\ published' = published (+) SetToBag({[event |-> DoneEvent(checker.latest, config),
                                                key |-> checker.latest.Key, run |-> run]})
        /\ publishers' = publishers \cup {checker.latest.Key}
        /\ history' = RecordInHistory(history, checker.latest.Key)
        /\ checker' = [checker EXCEPT !.pc = "save"]
        /\ UNCHANGED <<actionsMux, last>>
  /\ UNCHANGED <<config, dryRun, actions, votes, latestSignal, signalActionMap,
                 historyFile, status, run, loop, stream>>

\* a checkAndExecuteQuorum that would wait for its publishers before it returns
StepSaveAfterPublishers ==
  /\ Alive
  /\ checker.pc = "save"
  /\ checker.latest.Key \notin publishers
  /\ \E saveOk \in BOOLEAN : historyFile' = HistorySave(history, historyFile, saveOk)
  /\ actionsMux' = "unlocked"
  /\ checker' = CheckerIdle
  /\ last' = Took("tick", "executed", checker.latest.Key)
  /\ UNCHANGED <<config, dryRun, actions, votes, latestSignal, signalActionMap,
                 history, published, status, run, loop, publishers, stream>>

\* history.Save, whose error is logged, and the return with the deferred Unlock()
StepSave ==
  /\ Alive
  /\ checker.pc = "save"
  /\ \E saveOk \in BOOLEAN : historyFile' = HistorySave(history, historyFile, saveOk)
  /\ actionsMux' = "unlocked"
  /\ checker' = CheckerIdle
  /\ last' = Took("tick", "executed", checker.latest.Key)
  /\ UNCHANGED <<config, dryRun, actions, votes, latestSignal, signalActionMap,
                 history, published, status, run, loop, publishers, stream>>

\* a history.Save that returns no error
StepSaved == StepSave /\ historyFile' = history

\* the select of the goroutine takes ctx.Done() and the goroutine returns
StepCheckerExit ==
  /\ status = "cancelled"
  /\ checker.pc = "wait"
  /\ checker' = [checker EXCEPT !.pc = "exited"]
  /\ UNCHANGED <<config, dryRun, actions, votes, latestSignal, signalActionMap,
                 history, historyFile, published, status, run, last, actionsMux, loop, publishers, stream>>

\* between two events the loop finds the context cancelled or the stream closed;
\* main returns and the process ends, whatever the quorum checker is doing
StepLoopExit ==
  /\ status = "cancelled"
  /\ loop.pc = "receive"
  /\ status' = "stopped"
  /\ last' = Took("exit", "none", Empty)
  /\ UNCHANGED <<config, dryRun, actions, votes, latestSignal, signalActionMap,
                 history, historyFile, published, run, actionsMux, loop, checker, publishers, stream>>

\* a publisher goroutine returns: its relay has taken the event, or the
\* connection has failed; a relay that stays silent keeps it waiting
StepPublished(key) ==
  /\ Alive
  /\ key \in publishers
  /\ publishers' = publishers \ {key}
  /\ UNCHANGED <<config, dryRun, actions, votes, latestSignal, signalActionMap,
                 history, historyFile, published, status, run, last,
                 actionsMux, loop, checker, stream>>

NextSteps ==
  \/ \E ev \in StepEvents : StepReceive(ev)
  \/ StepLoopLock
  \/ StepSupersede
  \/ StepSwitch
  \/ StepFire
  \/ StepCheckerLock
  \/ StepSelect
  \/ StepExecute
  \/ StepSaved
  \/ \E key \in publishers : StepPublished(key)
  \/ Cancel
  \/ StepCheckerExit
  \/ StepLoopExit

\* the daemon started without -dry-run and with quorum 1, its goroutines in
\* steps, history.yaml being written without error
SpecSteps == InitTie /\ [][NextSteps]_vars

(***************************************************************************)
(* The loop fed from a fixed set of signals: the relays hold the set, and  *)
(* every relay may deliver every signal of it, in any order and more than  *)
(* once.                                                                   *)
(***************************************************************************)
\* the well-formed signals of Payloads that the loop logs without a panic
OrderPayloads ==
  { MkTags(S_hyperqube, V_1_9_0, H_long, N_hqz, S_upgrade, Empty),
    MkTags(S_hyperqube, V_1_10_0, H_long, N_hqz, S_reboot, G_ok) }

OrderEvents == [PubKey : Signers, CreatedAt : 1..MaxTime, Tags : OrderPayloads]

\* the sets of signals in which the times of each signer are pairwise distinct
DistinctTimes(E) ==
  {S \in SUBSET E :
     \A e1, e2 \in S : (e1.PubKey = e2.PubKey /\ e1.CreatedAt = e2.CreatedAt) => e1 = e2}

SignalSets == DistinctTimes(OrderEvents)

HashSignalSets == DistinctTimes(HashEvents)

\* the loop body run on a signal that a relay delivers
DeliverSignal(ev) ==
  /\ status = "running"
  /\ ev \in stream.sent
  /\ LET r == Process(Ledger, ev, config)
     IN /\ actions' = r.ledger.actions
        /\ votes' = r.ledger.votes
        /\ latestSignal' = r.ledger.latestSignal
        /\ signalActionMap' = r.ledger.signalActionMap
        /\ status' = IF r.panic THEN "crashed" ELSE status
        /\ last' = Took("event", r.outcome, Empty)
  /\ stream' = [stream EXCEPT !.seen = @ \cup {ev}]
  /\ UNCHANGED <<config, dryRun, history, historyFile, published, run,
                 actionsMux, loop, checker, publishers>>

\* the daemon started on relays that hold one of the given sets of signals
InitStream(sets) ==
  /\ config \in [Quorum : QuorumValues, Network : {N_hqz}, NodeID : {"node-1"}]
  /\ dryRun = FALSE
  /\ actions = EmptyMap
  /\ votes = EmptyMap
  /\ latestSignal = EmptyMap
  /\ signalActionMap = EmptyMap
  /\ historyFile = {}
  /\ history = loadHistory(historyFile)
  /\ published = EmptyBag
  /\ status = "running"
  /\ run = 1
  /\ last = Took("start", "none", Empty)
  /\ actionsMux = "unlocked"
  /\ loop = LoopIdle
  /\ checker = CheckerIdle
  /\ publishers = {}
  /\ stream \in [sent : sets, seen : {{}}]

InitOrder == InitStream(SignalSets)

NextOrder == \E ev \in OrderEvents : DeliverSignal(ev)

SpecOrder == InitOrder /\ [][NextOrder]_vars

\* the daemon with quorum 2 on relays that hold signals of two hashes for one
\* key, signing and saving without error
InitHash == InitStream(HashSignalSets) /\ config.Quorum = 2

NextHash ==
  \/ \E ev \in HashEvents : DeliverSignal(ev)
  \/ TickSucceeds

SpecHash == InitHash /\ [][NextHash]_vars

(***************************************************************************)
(* send-message and the daemon: signals are published by invocations of    *)
(* send-message that pass its checks, and the daemon runs its loop body on *)
(* the signals the relays hold.                                            *)
(***************************************************************************)
\* one invocation that reaches the publish: the event is signed with the key of
\* the config directory and stamped with the clock of the sender
SendMessage(f, pk, t) ==
  /\ Cardinality(stream.sent) < MaxSent
  /\ sendMessageFatal(f) = ""
  /\ ~f.dryRun
  /\ stream' = [stream EXCEPT !.sent = @ \cup {[PubKey |-> pk, CreatedAt |-> t,
                                                 Tags |-> sendMessageTags(f)]}]
  /\ UNCHANGED <<config, dryRun, actions, votes, latestSignal, signalActionMap,
                 history, historyFile, published, status, run, last,
                 actionsMux, loop, checker, publishers>>

\* the daemon started on either network, the relays holding no signal yet
InitSend ==
  /\ config \in [Quorum : QuorumValues, Network : {N_hqz, N_testnet}, NodeID : {"node-1"}]
  /\ dryRun = FALSE
  /\ actions = EmptyMap
  /\ votes = EmptyMap
  /\ latestSignal = EmptyMap
  /\ signalActionMap = EmptyMap
  /\ historyFile = {}
  /\ history = loadHistory(historyFile)
  /\ published = EmptyBag
  /\ status = "running"
  /\ run = 1
  /\ last = Took("start", "none", Empty)
  /\ actionsMux = "unlocked"
  /\ loop = LoopIdle
  /\ checker = CheckerIdle
  /\ publishers = {}
  /\ stream = NoStream

NextSend ==
  \/ \E f \in SendFlags, pk \in Signers, t \in 1..MaxTime : SendMessage(f, pk, t)
  \/ \E ev \in SendEvents : DeliverSignal(ev)

SpecSend == InitSend /\ [][NextSend]_vars

(***************************************************************************)
(* Properties.  A signal is described from its tags alone; what processing *)
(* it does to a reachable state is After(ev), the maps ProcessEvent(ev)    *)
(* leaves.                                                                 *)
(***************************************************************************)
\* the signal passes every check of the validator (spec 4.1)
ValidSignal(ev) ==
  LET t == Read[ev.Tags]
  IN /\ t.dTag = S_hyperqube
     /\ t.version # Empty /\ t.hash # Empty /\ t.network # Empty /\ t.action # Empty
     /\ ~t.v.err
     /\ t.network = config.Network
     /\ t.action \in {S_upgrade, S_reboot}
     /\ t.action = S_reboot => (t.genesisURL # Empty /\ ~t.genesisErr)

\* the action key of a valid signal
KeyOf(ev) ==
  LET t == Read[ev.Tags]
  IN IF t.action = S_upgrade THEN UpgradeKey(t.v) ELSE RebootKey(t.v, t.genesisURL)

\* the vote count of a key
Count(vts, key) == IF key \in DOMAIN vts THEN Cardinality(vts[key]) ELSE 0

\* the signers whose entry in the latest-signal index names the key
Naming(key) == {s \in DOMAIN signalActionMap : signalActionMap[s] = key}

\* the candidates an evaluator tick may act on
Eligible == {k \in DOMAIN actions : k \notin history /\ Count(votes, k) >= config.Quorum}

Key_1_9_0 == S_upgrade \o S_colon \o V_1_9_0
Key_1_10_0 == S_reboot \o S_colon \o V_1_10_0 \o S_colon \o G_ok

\* the four maps after the running daemon has processed the event
After(ev) == Process(Ledger, ev, config).ledger

\* C1: when a valid signal of signer S for key B with a time greater than the one
\* stored for S under another key A is processed, S is afterwards absent from the
\* vote set of A and present in the vote set of B.
C1_Supersession ==
  \A ev \in Events :
    ( /\ status = "running"
      /\ ev.PubKey \in DOMAIN latestSignal
      /\ ev.CreatedAt > latestSignal[ev.PubKey]
      /\ ValidSignal(ev)
      /\ KeyOf(ev) # signalActionMap[ev.PubKey] )
    => /\ ev.PubKey \notin After(ev).votes[signalActionMap[ev.PubKey]]
       /\ KeyOf(ev) \in DOMAIN After(ev).votes
       /\ ev.PubKey \in After(ev).votes[KeyOf(ev)]

\* C1 witness: s1 gave the first vote for upgrade:v1.9.0 and, after a newer signal,
\* is counted for reboot:v1.10.0:https://g only, a key another signer had created.
C1_Witness ==
  /\ Key_1_9_0 \in DOMAIN actions /\ Key_1_10_0 \in DOMAIN actions
  /\ actions[Key_1_9_0].OriginalPubkey = "s1"
  /\ actions[Key_1_10_0].OriginalPubkey = "s2"
  /\ "s1" \notin votes[Key_1_9_0]
  /\ votes[Key_1_10_0] = {"s1", "s2"}
  /\ latestSignal["s1"] = 2
  /\ last.outcome = "reboot"

\* C2: processing a signal whose time is less than or equal to the time stored for
\* its signer changes no vote set, no candidate and no entry of the index.
C2_StaleIgnored ==
  \A ev \in Events :
    ( /\ status = "running"
      /\ ev.PubKey \in DOMAIN latestSignal
      /\ ev.CreatedAt <= latestSignal[ev.PubKey] )
    => After(ev) = Ledger

\* C2 witness: a signal was ignored as stale and the vote of its signer still counts once.
C2_Witness ==
  /\ last.step = "event" /\ last.outcome = "stale"
  /\ Key_1_9_0 \in DOMAIN votes /\ votes[Key_1_9_0] = {"s1"}
  /\ latestSignal = [s \in {"s1"} |-> 2]

\* C3: the vote count of a key never exceeds the number of signers whose entry in
\* the latest-signal index names the key.
C3_CountBoundedByIndex ==
  \A k \in DOMAIN votes : Cardinality(votes[k]) <= Cardinality(Naming(k))

\* C3 witness: one key lost its vote to supersession and another is named and
\* voted by both signers.
C3_Witness ==
  \E k1, k2 \in DOMAIN votes :
    /\ k1 # k2
    /\ votes[k1] = {} /\ Naming(k1) = {}
    /\ votes[k2] = Signers /\ Naming(k2) = Signers

\* C4: every signer is a member of at most one vote set.
C4_OneVotePerSigner ==
  \A s \in Signers : Cardinality({k \in DOMAIN votes : s \in votes[k]}) <= 1

\* C4 witness: the two signers have swapped keys: each gave the first vote for one
\* key and, after a newer signal, is counted for the other key only.
C4_Witness ==
  /\ DOMAIN votes = {Key_1_9_0, Key_1_10_0}
  /\ actions[Key_1_9_0].OriginalPubkey = "s1" /\ actions[Key_1_10_0].OriginalPubkey = "s2"
  /\ votes[Key_1_9_0] = {"s2"} /\ votes[Key_1_10_0] = {"s1"}

\* C5: an evaluator tick selects nothing when no candidate is eligible, and
\* otherwise an eligible candidate than which no eligible candidate has a greater
\* version in the order of semantic versions (major, minor, patch as numbers).
C5_SelectsGreatestVersion ==
  [][last'.step = "tick" =>
       IF Eligible = {} THEN last'.selected = Empty
       ELSE /\ last'.selected \in Eligible
            /\ \A k \in Eligible :
                 Compare(actions[k].Version, actions[last'.selected].Version) <= 0]_vars

\* C5 witness: a dry-run tick has selected the action of version v1.10.0 while the
\* action of version v1.9.0, the greater as a string, is eligible too.
C5_Witness ==
  /\ last.step = "tick" /\ last.selected = Key_1_10_0
  /\ Key_1_9_0 \in Eligible /\ Key_1_10_0 \in Eligible
  /\ StrLess(V_1_10_0, V_1_9_0)

\* C6: the action an evaluator tick selects has, when the tick runs, a vote set of
\* at least Quorum signers and a key that is not in History.
C6_SelectedMeetsQuorum ==
  [][(last'.step = "tick" /\ last'.selected # Empty) =>
       /\ last'.selected \in DOMAIN votes
       /\ Cardinality(votes[last'.selected]) >= config.Quorum
       /\ ~HistoryHas(history, last'.selected)]_vars

\* C6 witness: with quorum 2 a tick has executed a key that both signers vote for,
\* after both had left another key, which stays in the registry without votes.
C6_Witness ==
  /\ config.Quorum = 2
  /\ last.step = "tick" /\ last.outcome = "executed"
  /\ votes[last.selected] = Signers
  /\ \E k \in DOMAIN actions : k # last.selected /\ votes[k] = {} /\ k \notin history

\* C7: History loses no key while the daemon runs, and no evaluator tick selects a
\* key that is in History, whatever votes the key holds.
C7_HistoryExcludes ==
  [][/\ history \subseteq history'
     /\ last'.step = "tick" => last'.selected \notin history]_vars

\* C7 witness: a key in History holds the votes of both signers, one of them
\* recorded after the execution, and the tick that followed selected nothing.
C7_Witness ==
  /\ last.step = "tick" /\ last.outcome = "none"
  /\ \E k \in history :
       /\ votes[k] = Signers
       /\ \E e \in BagToSet(published) : e.key = k
       /\ \E s \in Signers : latestSignal[s] = 2 /\ actions[k].OriginalPubkey # s

\* C8: in one run at most one status event is handed to the publishers for a key.
C8_ExecutedAtMostOnce ==
  \A e1, e2 \in BagToSet(published) :
    (e1.key = e2.key /\ e1.run = e2.run) => (e1 = e2 /\ CopiesIn(e1, published) = 1)

\* C8 witness: not in dry-run, a key was executed, still holds a quorum of votes,
\* and a later tick has run.
C8_Witness ==
  /\ ~dryRun
  /\ last.step = "tick" /\ last.outcome = "none"
  /\ \E e \in BagToSet(published) :
       /\ e.key \in DOMAIN votes
       /\ Cardinality(votes[e.key]) >= config.Quorum
       /\ CopiesIn(e, published) = 1

AllEvents == Events \cup MalformedEvents

\* processing the event adds a signer to a vote set or a candidate to the registry
Adds(ev) ==
  \/ DOMAIN After(ev).actions # DOMAIN actions
  \/ \E k \in DOMAIN After(ev).votes : After(ev).votes[k] \ (IF k \in DOMAIN votes THEN votes[k] ELSE {}) # {}

\* a vote or a candidate is added by valid signals only
OnlyValidSignalsAdd ==
  \A ev \in AllEvents : (status = "running" /\ Adds(ev)) => ValidSignal(ev)

\* a signal that fails a check leaves every vote count as it was
InvalidSignalsKeepCounts ==
  \A ev \in AllEvents :
    (status = "running" /\ ~ValidSignal(ev)) =>
      \A k \in DOMAIN votes \cup DOMAIN After(ev).votes : Count(After(ev).votes, k) = Count(votes, k)

\* the members of the vote sets and the candidates of the registry come from signals
\* of the configured network, with a version that parses and a known action type
LedgerWellFormed ==
  /\ \A k \in DOMAIN actions :
       /\ actions[k].Key = k
       /\ actions[k].Network = config.Network
       /\ actions[k].Hash # Empty
       /\ ~actions[k].Version.err
       /\ actions[k].Type \in {S_upgrade, S_reboot}
       /\ actions[k].Type = S_reboot => ~ParseRequestURIErr(actions[k].Genesis)
  /\ \A k \in DOMAIN votes : k \in DOMAIN actions /\ votes[k] \subseteq Signers

\* C9: votes and candidates are added by valid signals only, and a step that
\* processes a signal failing a check of the validator adds none and leaves every
\* vote count as it was.
C9_InvalidSignalsNeverCount ==
  [][\A ev \in AllEvents :
       ProcessEvent(ev) =>
         /\ LedgerWellFormed'
         /\ Adds(ev) => ValidSignal(ev)
         /\ ~ValidSignal(ev) =>
              \A k \in DOMAIN votes \cup DOMAIN votes' : Count(votes', k) = Count(votes, k)]_vars

\* C10: a step that processes a signal failing a check of the validator, whatever
\* the check, leaves the vote sets, the registry and the latest-signal index
\* unchanged.
C10_RejectionHasNoEffect ==
  [][\A ev \in AllEvents :
       (~ValidSignal(ev) /\ ProcessEvent(ev)) =>
         UNCHANGED <<actions, votes, latestSignal, signalActionMap>>]_vars

\* the same for the signals turned down before the lock is taken
PreLockRejectionHasNoEffect ==
  \A ev \in AllEvents : (status = "running" /\ PreLockReject(ev, config) # "") => After(ev) = Ledger

\* C11: processing a signal whose action type is neither upgrade nor reboot creates
\* no candidate, adds its signer to no vote set and leaves the entry of the signer
\* in the latest-signal index as it was.
C11_UnknownActionRejected ==
  \A ev \in Events :
    (status = "running" /\ Read[ev.Tags].action \notin {S_upgrade, S_reboot}) =>
      /\ After(ev).actions = actions
      /\ DOMAIN After(ev).votes = DOMAIN votes
      /\ \A k \in DOMAIN votes : ev.PubKey \in After(ev).votes[k] => ev.PubKey \in votes[k]
      /\ After(ev).latestSignal = latestSignal
      /\ After(ev).signalActionMap = signalActionMap

\* C11 witness: s1, who had voted at time 1, sent a newer signal of an unknown
\* action type: no candidate was added and the index of s1 still holds time 1.
C11_Witness ==
  /\ last.step = "event" /\ last.outcome = "unknown_action"
  /\ DOMAIN actions = {Key_1_9_0}
  /\ votes[Key_1_9_0] = {}
  /\ latestSignal = [s \in {"s1"} |-> 1]
  /\ signalActionMap = [s \in {"s1"} |-> Key_1_9_0]

Key_up_1_10_0 == S_upgrade \o S_colon \o V_1_10_0
TieKeys == {Key_1_9_0, Key_1_10_0, Key_up_1_10_0}

\* no eligible candidate has a greater version than the candidate of key k
Greatest(k) == \A j \in Eligible : Compare(actions[j].Version, actions[k].Version) <= 0

\* the key was executed: its status event was handed over and it is in History
Executed(k) == k \in history /\ \E e \in BagToSet(published) : e.key = k

\* while the daemon runs, not in dry-run, an eligible key is executed unless it
\* stops being eligible
EligibleLeadsToExecuted ==
  \A k \in TieKeys :
    (status = "running" /\ ~dryRun /\ k \in Eligible)
      ~> (Executed(k) \/ k \notin Eligible \/ status # "running")

\* C12 as stated: a tick selects every eligible key than which no eligible key has
\* a greater version, and an action that stays eligible is eventually executed and
\* recorded in History.
C12_SelectsEveryGreatest ==
  /\ [][last'.step = "tick" =>
          \A k \in Eligible : Greatest(k) => last'.selected = k]_vars
  /\ EligibleLeadsToExecuted

\* C12 amended: a tick selects, for an eligible key than which no eligible key has a
\* greater version, that key or an eligible key of equal version, and an action
\* that stays eligible is eventually executed and recorded in History.
C12_SelectsAGreatest ==
  /\ [][last'.step = "tick" =>
          \A k \in Eligible : Greatest(k) =>
             /\ last'.selected \in Eligible
             /\ Compare(actions[last'.selected].Version, actions[k].Version) = 0]_vars
  /\ EligibleLeadsToExecuted

\* C12 witness: the two keys of version v1.10.0 and the key of version v1.9.0 have
\* all been executed, one tick after the other.
C12_Witness ==
  /\ last.step = "tick" /\ last.outcome = "executed"
  /\ history = TieKeys
  /\ \A k \in TieKeys : Executed(k)

\* C13: no step removes a candidate from the registry or changes its type, version,
\* genesis, hash, network or origin signer: they stay those of the first accepted
\* signal for the key.
C13_FirstWriterWins ==
  [][\A k \in DOMAIN actions : k \in DOMAIN actions' /\ actions'[k] = actions[k]]_vars

\* C13 witness: s1 created upgrade:v1.9.0 with the long hash and then moved to
\* another key; the last signal, of s2 for upgrade:v1.9.0 with the short hash, was
\* counted, and the candidate still has the hash and origin of s1.
C13_Witness ==
  /\ last.step = "event" /\ last.outcome = "upgrade" /\ status = "crashed"
  /\ actions[Key_1_9_0].OriginalPubkey = "s1" /\ actions[Key_1_9_0].Hash = H_long
  /\ votes[Key_1_9_0] = {"s2"}
  /\ signalActionMap["s1"] = Key_1_10_0 /\ votes[Key_1_10_0] = {"s1"}

\* C14: right after the tick that selects and executes an action, the vote set of
\* its key is empty.
C14_VotesClearedOnExecution ==
  [][(last'.step = "tick" /\ last'.outcome = "executed") =>
        votes'[last'.selected] = {}]_vars

\* C15: a key whose status event was handed to the publishers in one run is not
\* executed again in a later run, whatever the point at which the process died in
\* between.
C15_NoReExecutionAfterCrash ==
  \A e1, e2 \in BagToSet(published) : e1.key = e2.key => e1.run = e2.run

\* C16: the step that processes an event leaves the daemon running, so that the
\* next event is read and the evaluator keeps ticking.
C16_EventNeverStopsDaemon ==
  [][\A ev \in Events : ProcessEvent(ev) => status' = "running"]_vars

\* C18: in dry-run mode no step adds a key to History, writes history.yaml or hands
\* a status event to the publishers.
C18_DryRunHasNoEffect ==
  [][dryRun => /\ history' = history
               /\ historyFile' = historyFile
               /\ published' = published]_vars

\* C18 witness: in dry-run mode a tick has selected a key that both signers vote
\* for; History is empty and nothing was published.
C18_Witness ==
  /\ dryRun
  /\ last.step = "tick" /\ last.outcome = "dry_run"
  /\ last.selected \in DOMAIN votes /\ votes[last.selected] = Signers
  /\ history = {} /\ historyFile = {} /\ published = EmptyBag

\* C19: once the context is cancelled, the evaluator goroutine and the loop of main
\* eventually exit and the process has ended; no signal is processed and no tick
\* runs after that.
C19_ShutdownTerminates ==
  /\ (status \in {"cancelled", "evaluator_exited"}) ~> (status = "stopped")
  /\ [][status = "evaluator_exited" => last'.step # "tick"]_vars
  /\ [][status = "stopped" => UNCHANGED vars]_vars

\* C19 witness: the context was cancelled after an action had been executed, and
\* main has returned.
C19_Witness ==
  /\ status = "stopped" /\ last.step = "exit"
  /\ history # {} /\ published # EmptyBag

C21_AckOnlyAfterDurableHistory ==
  \A e \in BagToSet(published) : e.key \in historyFile

\* C25: the action a tick selects is a function of the candidates, the votes and
\* the history: in every state, all map iteration orders yield the same latest.
C25_DeterministicChoice ==
  \A l1, l2 \in Selectable : l1.Key = l2.Key

\* C26: the action key depends on the action type, the semantic version and the
\* genesis reference only: two candidates with the same type, versions that
\* compare equal and the same genesis reference are one candidate under one key.
C26_KeyFromSemanticVersion ==
  \A k1, k2 \in DOMAIN actions :
    ( /\ actions[k1].Type = actions[k2].Type
      /\ Compare(actions[k1].Version, actions[k2].Version) = 0
      /\ actions[k1].Genesis = actions[k2].Genesis )
    => k1 = k2

\* C27: the quorum the quorum checker compares with is at least 1, so that the
\* action a tick selects has at least one vote.
C27_QuorumAtLeastOne ==
  [][(last'.step = "tick" /\ last'.selected # Empty)
       => (config.Quorum >= 1 /\ VoteCount(votes, last'.selected) >= 1)]_vars

\* C28: when the execution of a selected action fails (the private key does not
\* decode, or signing the status event fails), a status event for the key with a
\* status other than success is handed to the publishers.
C28_FailureAcknowledged ==
  [][last'.outcome = "sign_error"
       => \E e \in BagToSet(published') :
            /\ e.key = last'.selected
            /\ e.event.status # S_success
            /\ CopiesIn(e, published') > CopiesIn(e, published)]_vars

\* C29: a tick whose execution fails before the history is written leaves the
\* history, the candidates, the votes and the index as they were, and the next
\* tick selects the same action again.
C29_FailedExecutionIsRetried ==
  [][last'.outcome = "sign_error"
       => /\ history' = history /\ historyFile' = historyFile
          /\ Ledger' = Ledger
          /\ \A latest \in Selectable' : latest.Key = last'.selected]_vars

C22_LockReleasedBeforeExecutor ==
  checker.pc \in {"execute", "save"}
    => (actionsMux # "checker" /\ (loop.pc = "lock" => ENABLED StepLoopLock))

\* C23: no selection of the quorum checker runs while the event loop is inside
\* its locked section, where the vote of a superseding signer is deleted from
\* the old key and not yet added to the new one.
C23_SelectionIsAtomic ==
  checker.pc = "select" => loop.pc \notin {"locked", "switch"}

\* C23 witness: the tick is due and the checker waits for the mutex while s1,
\* whose newer signal is being handled, is deleted from the votes of the key
\* its index entry still names.
C23_Witness ==
  /\ checker.pc = "lock" /\ actionsMux = "main" /\ loop.pc = "switch"
  /\ loop.ev.PubKey = "s1"
  /\ "s1" \in DOMAIN signalActionMap
  /\ "s1" \notin votes[signalActionMap["s1"]]
  /\ "s2" \in votes[signalActionMap["s1"]]
  /\ loop.ev.CreatedAt > latestSignal["s1"]

\* C24: when main returns after a cancellation, a cycle of the quorum checker
\* that is under way has either published nothing or has its key in the saved
\* history.
C24_NoHalfAppliedCycleAtExit ==
  (status = "stopped" /\ checker.pc \notin {"wait", "exited"})
    => \A e \in BagToSet(published) :
         e.key = checker.latest.Key => e.key \in historyFile

\* C31: one tick of the quorum checker executes at most one candidate: it hands
\* at most one status event to the publishers and adds at most one key, the
\* selected one, to the history.
C31_AtMostOnePerTick ==
  [][last'.step = "tick" =>
       /\ BagCardinality(published') <= BagCardinality(published) + 1
       /\ history' \ history \subseteq {last'.selected}
       /\ \A e \in BagToSet(published') :
            CopiesIn(e, published') > CopiesIn(e, published) => e.key = last'.selected]_vars

\* C31 witness: two candidates were eligible together; a tick has executed one
\* of them and the other is still eligible and out of the history.
C31_Witness ==
  /\ last.step = "tick" /\ last.outcome = "executed"
  /\ history = {last.selected}
  /\ BagCardinality(published) = 1
  /\ \E k \in Eligible : k # last.selected /\ votes[last.selected] # {}

\* C32: actionsMux is held exactly while its holder is inside its locked section,
\* and whenever it is held the holder has a step to take towards its Unlock():
\* no state has the mutex held with no goroutine able to release it.
C32_LockAlwaysReleased ==
  /\ actionsMux = "main" <=> loop.pc \in {"locked", "switch"}
  /\ actionsMux = "checker" <=> checker.pc \in {"select", "execute", "save"}
  /\ actionsMux = "main" => (ENABLED StepSupersede \/ ENABLED StepSwitch)
  /\ actionsMux = "checker" => (ENABLED StepSelect \/ ENABLED StepExecute \/ ENABLED StepSave)

\* C33: actionsMux is not held by a goroutine that waits on a relay: the event
\* loop waits for its next event without the mutex, and while publisher
\* goroutines wait on their relays the holder of the mutex has a step to take
\* and a goroutine that asks for the free mutex gets it.
C33_NoLockAcrossRelayWait ==
  /\ loop.pc \in {"receive", "lock"} => actionsMux # "main"
  /\ (Alive /\ publishers # {}) =>
       /\ actionsMux = "checker" =>
            (ENABLED StepSelect \/ ENABLED StepExecute \/ ENABLED StepSave)
       /\ actionsMux = "main" => (ENABLED StepSupersede \/ ENABLED StepSwitch)
       /\ (actionsMux = "unlocked" /\ checker.pc = "lock") => ENABLED StepCheckerLock
       /\ (actionsMux = "unlocked" /\ loop.pc = "lock") => ENABLED StepLoopLock

\* C33 witness: the publishers of the first status event have not returned, and
\* meanwhile the loop has recorded a vote and a second tick has executed
\* another key and returned.
C33_Witness ==
  /\ Cardinality(publishers) = 2
  /\ Cardinality(history) = 2
  /\ last.step = "tick" /\ last.outcome = "executed"
  /\ actionsMux = "unlocked"

\* C34: a published status event carries the data of the candidate it was built
\* for: the a and p tags name the signer of the first accepted signal for the
\* key, version and action are the candidate's, network and node_id are the
\* configured ones, and the status is success.
C34_AcknowledgementCarriesCandidate ==
  \A e \in BagToSet(published) :
    /\ e.key \in DOMAIN actions
    /\ e.event.a = <<"33321", actions[e.key].OriginalPubkey, "hyperqube">>
    /\ e.event.p = actions[e.key].OriginalPubkey
    /\ e.event.version = actions[e.key].Version.original
    /\ e.event.action = actions[e.key].Type
    /\ e.event.network = config.Network
    /\ e.event.node_id = config.NodeID
    /\ e.event.status = S_success

\* C34 witness: the status event for the reboot to v1.10.0, executed at quorum 2,
\* is addressed to s1, who sent the first signal for the key and has moved the
\* vote to another key since.
C34_Witness ==
  \E e \in BagToSet(published) :
    /\ e.key = Key_1_10_0
    /\ e.event.p = "s1" /\ e.event.action = S_reboot /\ e.event.version = V_1_10_0
    /\ config.Quorum = 2
    /\ signalActionMap["s1"] = Key_1_9_0
    /\ votes[Key_1_10_0] = {"s2"}

\* C35: a signer is in the vote set of a key exactly when the entry of the signer
\* in the latest-signal index names that key.
C35_VoteIffIndexed ==
  \A s \in Signers : \A k \in DOMAIN votes :
    s \in votes[k] <=> (s \in DOMAIN signalActionMap /\ signalActionMap[s] = k)

\* C36: when every signal of a set in which the times of each signer are pairwise
\* distinct has been delivered, in whatever order and however often, each signer
\* is in the vote set of the key of its signal with the greatest time, and in no
\* other vote set.
C36_OrderIndependent ==
  (status = "running" /\ stream.sent # {} /\ stream.seen = stream.sent)
    => \A s \in Signers : \A k \in {KeyOf(ev) : ev \in OrderEvents} :
         (k \in DOMAIN votes /\ s \in votes[k])
           <=> \E ev \in stream.sent :
                 /\ ev.PubKey = s /\ KeyOf(ev) = k
                 /\ \A o \in stream.sent : o.PubKey = s => o.CreatedAt <= ev.CreatedAt

\* C36 witness: s1 has sent signals for both keys and s2 one; all were delivered,
\* the one delivered last being older than one taken before it.
C36_Witness ==
  /\ stream.seen = stream.sent
  /\ Cardinality({ev \in stream.sent : ev.PubKey = "s1"}) = 2
  /\ Cardinality({KeyOf(ev) : ev \in {e \in stream.sent : e.PubKey = "s1"}}) = 2
  /\ \E ev \in stream.sent : ev.PubKey = "s2"
  /\ last.step = "event" /\ last.outcome = "stale"
  /\ Key_1_9_0 \in DOMAIN votes /\ votes[Key_1_9_0] = {"s1", "s2"}
  /\ Key_1_10_0 \in DOMAIN votes /\ votes[Key_1_10_0] = {}

\* the signal of the signer with the greatest time among those delivered
HasCurrent(s) == \E ev \in stream.seen : ev.PubKey = s

Current(s) ==
  CHOOSE ev \in stream.seen :
    ev.PubKey = s /\ \A o \in stream.seen : o.PubKey = s => o.CreatedAt <= ev.CreatedAt

\* C37 as stated: the signers counted for an executed action sent their current
\* signals with one and the same hash.
C37_EndorsersAgreeOnHash ==
  [][(last'.step = "tick" /\ last'.outcome = "executed") =>
       \A s1, s2 \in votes[last'.selected] :
         Read[Current(s1).Tags].hash = Read[Current(s2).Tags].hash]_vars

\* C37 amended: the signals for one key are counted together whatever hash they
\* carry: the vote set of a key holds every signer whose current signal names
\* the key; the candidate takes the hash of the signal that creates it and is
\* not changed by later signals.
C37_CountedWhateverHash ==
  [][/\ \A k \in DOMAIN votes' :
          votes'[k] = {s \in Signers : HasCurrent(s)' /\ KeyOf(Current(s)') = k}
     /\ \A k \in DOMAIN actions' :
          IF k \in DOMAIN actions THEN actions'[k] = actions[k]
          ELSE \E ev \in stream'.seen :
                 KeyOf(ev) = k /\ actions'[k].Hash = Read[ev.Tags].hash
                 /\ last'.step = "event" /\ actions'[k].OriginalPubkey = ev.PubKey]_vars

\* C37 witness: with quorum 2 the upgrade was executed on the votes of s1 and
\* s2, whose current signals carry different hashes.
C37_Witness ==
  /\ last.step = "tick" /\ last.outcome = "executed"
  /\ votes[last.selected] = Signers
  /\ HasCurrent("s1") /\ HasCurrent("s2")
  /\ Read[Current("s1").Tags].hash # Read[Current("s2").Tags].hash
  /\ actions[last.selected].Hash = H_other

\* C38: every signal send-message has published for the network the daemon is
\* configured for passes the checks of the daemon's loop body: run on it, the
\* loop body records the signal as an upgrade or a reboot, or drops it only as
\* older than the signer's latest signal
C38_SentSignalIsAccepted ==
  \A ev \in stream.sent :
    Read[ev.Tags].network = config.Network
      => Process(Ledger, ev, config).outcome \in {"upgrade", "reboot", "stale"}

\* C39: in every step, a signer that has a timestamp in the latest-signal index
\* keeps an entry whose timestamp is not lower; an entry appears or changes only
\* in a step that accepts a signal of the signer as an upgrade or a reboot; and
\* the action key stored for the signer changes only in a step that makes the
\* stored timestamp strictly greater
C39_TimestampOnlyIncreases ==
  [][\A s \in Signers :
       /\ s \in DOMAIN latestSignal
            => /\ s \in DOMAIN latestSignal'
               /\ latestSignal'[s] >= latestSignal[s]
               /\ s \in DOMAIN signalActionMap /\ s \in DOMAIN signalActionMap'
               /\ signalActionMap'[s] # signalActionMap[s]
                    => latestSignal'[s] > latestSignal[s]
       /\ s \in DOMAIN latestSignal'
            => s \in DOMAIN signalActionMap'
       /\ (s \notin DOMAIN latestSignal /\ s \in DOMAIN latestSignal')
            \/ (s \in DOMAIN latestSignal /\ latestSignal'[s] # latestSignal[s])
            => /\ last'.step = "event"
               /\ last'.outcome \in {"upgrade", "reboot"}
               /\ signalActionMap'[s] \in DOMAIN votes'
               /\ s \in votes'[signalActionMap'[s]]]_vars

\* a signer whose stored timestamp has been replaced: two candidate actions
\* were first proposed by s1, and the index holds the later time
C39_Witness ==
  /\ "s1" \in DOMAIN latestSignal
  /\ latestSignal["s1"] = MaxTime
  /\ Cardinality({k \in DOMAIN actions : actions[k].OriginalPubkey = "s1"}) = 2
  /\ "s2" \notin DOMAIN latestSignal

====
